---- MODULE Spec2Model ----
(***************************************************************************)
(* Model of the stripelistener crate (src/rust/src/lib.rs): the Listener   *)
(* (authorize / connect), the egress mpsc channel with its writer task,    *)
(* the ping task, and the read loop that decodes frames, acknowledges      *)
(* deliveries and calls the EventHandler.                                  *)
(***************************************************************************)
EXTENDS Naturals, Integers, Sequences, FiniteSets, TLC

VARIABLES
    session,     \* StripeListener.session : None or a Session
    write_tx,    \* StripeListener.write_tx : 0 (None) or the channel it sends on
    result,      \* what the last authorize()/connect() call returned
    handshakes,  \* number of connect_async calls made so far
    dialed,      \* the request of the last connect_async call
    nconn,       \* number of connections established so far
    chan,        \* per connection: the mpsc channel (queue, receiver dropped?)
    writer,      \* per connection: position of the write loop
    wmsg,        \* per connection: the message the write loop holds
    prober,      \* per connection: position of the ping loop
    wire,        \* per connection: messages written to the socket, in order
    enq,         \* per connection: messages accepted by the channel, in order
    rpc,         \* position of the read loop of the running connect()
    rcur,        \* the delivery the read loop is handling
    ingress,     \* items read.next() returned so far, over all connections
    trace,       \* what the read loops did so far: acks sent, handler calls
    nauth,       \* authorize() calls made
    npings,      \* pings enqueued
    sock         \* per connection: the socket, as its two halves find it

vars == << session, write_tx, result, handshakes, dialed, nconn, chan, writer,
           wmsg, prober, wire, enq, rpc, rcur, ingress, trace, nauth, npings,
           sock >>

(***************************************************************************)
(* Bounds of the model.                                                    *)
(***************************************************************************)
MaxFrames == 2       \* frames read over a run
MaxPings == 2        \* pings enqueued over a run
MaxAuth == 2         \* authorize() calls over a run
MaxConnects == 2     \* connect_async calls over a run

(***************************************************************************)
(* Program constants.                                                      *)
(***************************************************************************)
ChannelCapacity == 32

SUBPROTOCOL == "stripecli-devproxy-v1"

Conns == 1..MaxConnects

None == [some |-> FALSE]

(***************************************************************************)
(* JSON values.  An object is a function from field names to values.       *)
(***************************************************************************)
JStr(x) == [t |-> "string", s |-> x, n |-> 0, b |-> FALSE]
JNum(x) == [t |-> "number", s |-> "", n |-> x, b |-> FALSE]
JBool(x) == [t |-> "bool", s |-> "", n |-> 0, b |-> x]

Without(o, keys) == [k \in (DOMAIN o) \ keys |-> o[k]]

HasStr(o, k) == k \in DOMAIN o /\ o[k].t = "string"
\* a u64 field: the numbers of this model all lie below 2^64
HasU64(o, k) == k \in DOMAIN o /\ o[k].t = "number" /\ o[k].n >= 0
HasBool(o, k) == k \in DOMAIN o /\ o[k].t = "bool"

Ok(x) == [ok |-> TRUE, v |-> x]
Err == [ok |-> FALSE]

(***************************************************************************)
(* The texts the relay sends in this model, and the JSON document each one *)
(* is.  A text outside this table is not JSON.                             *)
(***************************************************************************)
NotJson == "not json"

PayloadEvt1 == "{\"id\":\"evt_1\",\"type\":\"charge.succeeded\",\"created\":1000,\"livemode\":false}"
PayloadEvt2 == "{\"id\":\"evt_2\",\"type\":\"charge.failed\",\"created\":2000,\"livemode\":true}"
PayloadNegCreated == "{\"id\":\"evt_4\",\"type\":\"charge.failed\",\"created\":-1,\"livemode\":true}"
PayloadV2 == "{\"id\":\"evt_3\",\"type\":\"v1.billing.meter.no_meter_found\"}"
PayloadNoId == "{\"type\":\"v1.billing.meter.no_meter_found\"}"

TextWebhook1 == "{\"type\":\"webhook_event\",\"webhook_id\":\"wh_1\",\"webhook_conversation_id\":\"wc_1\",\"event_payload\":\"{\\\"id\\\":\\\"evt_1\\\",\\\"type\\\":\\\"charge.succeeded\\\",\\\"created\\\":1000,\\\"livemode\\\":false}\"}"
TextWebhook2 == "{\"type\":\"webhook_event\",\"webhook_id\":\"wh_2\",\"webhook_conversation_id\":\"wc_2\",\"event_payload\":\"{\\\"id\\\":\\\"evt_2\\\",\\\"type\\\":\\\"charge.failed\\\",\\\"created\\\":2000,\\\"livemode\\\":true}\",\"endpoint\":\"ep_1\"}"
TextWebhookNoId == "{\"type\":\"webhook_event\",\"webhook_conversation_id\":\"wc_1\",\"event_payload\":\"{\\\"id\\\":\\\"evt_1\\\",\\\"type\\\":\\\"charge.succeeded\\\",\\\"created\\\":1000,\\\"livemode\\\":false}\"}"
TextWebhookBadPayload == "{\"type\":\"webhook_event\",\"webhook_id\":\"wh_1\",\"webhook_conversation_id\":\"wc_1\",\"event_payload\":\"not json\"}"
TextWebhookNegCreated == "{\"type\":\"webhook_event\",\"webhook_id\":\"wh_1\",\"webhook_conversation_id\":\"wc_1\",\"event_payload\":\"{\\\"id\\\":\\\"evt_4\\\",\\\"type\\\":\\\"charge.failed\\\",\\\"created\\\":-1,\\\"livemode\\\":true}\"}"
TextWebhookV2Payload == "{\"type\":\"webhook_event\",\"webhook_id\":\"wh_1\",\"webhook_conversation_id\":\"wc_1\",\"event_payload\":\"{\\\"id\\\":\\\"evt_3\\\",\\\"type\\\":\\\"v1.billing.meter.no_meter_found\\\"}\"}"
TextV2 == "{\"type\":\"v2_event\",\"destination_id\":\"dest_1\",\"payload\":\"{\\\"id\\\":\\\"evt_3\\\",\\\"type\\\":\\\"v1.billing.meter.no_meter_found\\\"}\",\"webhook_conversation_id\":\"wc_9\"}"
TextV2NoDest == "{\"type\":\"v2_event\",\"payload\":\"{\\\"id\\\":\\\"evt_3\\\",\\\"type\\\":\\\"v1.billing.meter.no_meter_found\\\"}\"}"
TextV2BadPayload == "{\"type\":\"v2_event\",\"destination_id\":\"dest_1\",\"payload\":\"{\\\"type\\\":\\\"v1.billing.meter.no_meter_found\\\"}\"}"
TextUnknown == "{\"type\":\"ping_ack\",\"webhook_id\":\"wh_1\",\"note\":\"n_1\"}"
TextNoType == "{\"webhook_id\":\"wh_1\",\"webhook_conversation_id\":\"wc_1\"}"
TextNumType == "{\"type\":5,\"webhook_id\":\"wh_1\"}"

BodySession1 == "{\"websocket_id\":\"ws_1\",\"websocket_url\":\"wss://x\",\"websocket_authorized_feature\":\"webhooks\"}"
BodySession2 == "{\"websocket_id\":\"ws_2\",\"websocket_url\":\"wss://y\",\"websocket_authorized_feature\":\"webhooks_v2\"}"
BodySessionBadUrl == "{\"websocket_id\":\"ws_3\",\"websocket_url\":\"no url\",\"websocket_authorized_feature\":\"webhooks\"}"
BodyPartial == "{\"websocket_id\":\"ws_4\",\"websocket_url\":\"wss://z\"}"
BodyUnauthorized == "{\"error\":\"invalid api key\"}"

JsonDoc ==
    (PayloadEvt1 :> [id |-> JStr("evt_1"), type |-> JStr("charge.succeeded"),
                     created |-> JNum(1000), livemode |-> JBool(FALSE)])
 @@ (PayloadEvt2 :> [id |-> JStr("evt_2"), type |-> JStr("charge.failed"),
                     created |-> JNum(2000), livemode |-> JBool(TRUE)])
 @@ (PayloadNegCreated :> [id |-> JStr("evt_4"), type |-> JStr("charge.failed"),
                     created |-> JNum(-1), livemode |-> JBool(TRUE)])
 @@ (PayloadV2 :> [id |-> JStr("evt_3"), type |-> JStr("v1.billing.meter.no_meter_found")])
 @@ (PayloadNoId :> [type |-> JStr("v1.billing.meter.no_meter_found")])
 @@ (TextWebhook1 :> [type |-> JStr("webhook_event"), webhook_id |-> JStr("wh_1"),
                      webhook_conversation_id |-> JStr("wc_1"),
                      event_payload |-> JStr(PayloadEvt1)])
 @@ (TextWebhook2 :> [type |-> JStr("webhook_event"), webhook_id |-> JStr("wh_2"),
                      webhook_conversation_id |-> JStr("wc_2"),
                      event_payload |-> JStr(PayloadEvt2), endpoint |-> JStr("ep_1")])
 @@ (TextWebhookNoId :> [type |-> JStr("webhook_event"),
                      webhook_conversation_id |-> JStr("wc_1"),
                      event_payload |-> JStr(PayloadEvt1)])
 @@ (TextWebhookBadPayload :> [type |-> JStr("webhook_event"), webhook_id |-> JStr("wh_1"),
                      webhook_conversation_id |-> JStr("wc_1"),
                      event_payload |-> JStr(NotJson)])
 @@ (TextWebhookNegCreated :> [type |-> JStr("webhook_event"), webhook_id |-> JStr("wh_1"),
                      webhook_conversation_id |-> JStr("wc_1"),
                      event_payload |-> JStr(PayloadNegCreated)])
 @@ (TextWebhookV2Payload :> [type |-> JStr("webhook_event"), webhook_id |-> JStr("wh_1"),
                      webhook_conversation_id |-> JStr("wc_1"),
                      event_payload |-> JStr(PayloadV2)])
 @@ (TextV2 :> [type |-> JStr("v2_event"), destination_id |-> JStr("dest_1"),
                payload |-> JStr(PayloadV2), webhook_conversation_id |-> JStr("wc_9")])
 @@ (TextV2NoDest :> [type |-> JStr("v2_event"), payload |-> JStr(PayloadV2)])
 @@ (TextV2BadPayload :> [type |-> JStr("v2_event"), destination_id |-> JStr("dest_1"),
                payload |-> JStr(PayloadNoId)])
 @@ (TextUnknown :> [type |-> JStr("ping_ack"), webhook_id |-> JStr("wh_1"),
                     note |-> JStr("n_1")])
 @@ (TextNoType :> [webhook_id |-> JStr("wh_1"), webhook_conversation_id |-> JStr("wc_1")])
 @@ (TextNumType :> [type |-> JNum(5), webhook_id |-> JStr("wh_1")])
 @@ (BodySession1 :> [websocket_id |-> JStr("ws_1"), websocket_url |-> JStr("wss://x"),
                      websocket_authorized_feature |-> JStr("webhooks")])
 @@ (BodySession2 :> [websocket_id |-> JStr("ws_2"), websocket_url |-> JStr("wss://y"),
                      websocket_authorized_feature |-> JStr("webhooks_v2")])
 @@ (BodySessionBadUrl :> [websocket_id |-> JStr("ws_3"), websocket_url |-> JStr("no url"),
                      websocket_authorized_feature |-> JStr("webhooks")])
 @@ (BodyPartial :> [websocket_id |-> JStr("ws_4"), websocket_url |-> JStr("wss://z")])
 @@ (BodyUnauthorized :> [error |-> JStr("invalid api key")])

\* serde_json::from_str to a JSON document
from_str(text) == IF text \in DOMAIN JsonDoc THEN Ok(JsonDoc[text]) ELSE Err

(***************************************************************************)
(* Typed decoding (serde Deserialize of the structs of lib.rs).            *)
(***************************************************************************)
\* variant: the capability is optional and defaults to the empty string
decode_Session_Lenient(body) ==
    LET r == from_str(body) IN
    IF r.ok /\ HasStr(r.v, "websocket_id") /\ HasStr(r.v, "websocket_url")
    THEN Ok([some |-> TRUE,
             websocket_id |-> r.v["websocket_id"].s,
             websocket_url |-> r.v["websocket_url"].s,
             websocket_authorized_feature |->
                 IF HasStr(r.v, "websocket_authorized_feature")
                 THEN r.v["websocket_authorized_feature"].s ELSE ""])
    ELSE Err

\* Session: three required string fields
decode_Session(body) ==
    LET r == from_str(body) IN
    IF r.ok /\ HasStr(r.v, "websocket_id") /\ HasStr(r.v, "websocket_url")
            /\ HasStr(r.v, "websocket_authorized_feature")
    THEN Ok([some |-> TRUE,
             websocket_id |-> r.v["websocket_id"].s,
             websocket_url |-> r.v["websocket_url"].s,
             websocket_authorized_feature |-> r.v["websocket_authorized_feature"].s])
    ELSE Err

\* variant: data is the whole document, "type" included
decode_IncomingMessage_KeepsType(text) ==
    LET r == from_str(text) IN
    IF r.ok /\ HasStr(r.v, "type")
    THEN Ok([msg_type |-> r.v["type"].s, data |-> r.v])
    ELSE Err

\* IncomingMessage: "type" is msg_type, every other field is flattened into data
decode_IncomingMessage(text) ==
    LET r == from_str(text) IN
    IF r.ok /\ HasStr(r.v, "type")
    THEN Ok([msg_type |-> r.v["type"].s, data |-> Without(r.v, {"type"})])
    ELSE Err

\* WebhookEvent from IncomingMessage.data
decode_WebhookEvent(data) ==
    IF HasStr(data, "webhook_id") /\ HasStr(data, "webhook_conversation_id")
       /\ HasStr(data, "event_payload")
    THEN Ok([webhook_id |-> data["webhook_id"].s,
             webhook_conversation_id |-> data["webhook_conversation_id"].s,
             event_payload |-> data["event_payload"].s,
             extra |-> Without(data, {"webhook_id", "webhook_conversation_id",
                                      "event_payload"})])
    ELSE Err

\* V2Event from IncomingMessage.data
decode_V2Event(data) ==
    IF HasStr(data, "destination_id") /\ HasStr(data, "payload")
    THEN Ok([destination_id |-> data["destination_id"].s,
             payload |-> data["payload"].s,
             extra |-> Without(data, {"destination_id", "payload"})])
    ELSE Err

\* StripeEventPayload from the text of event_payload
decode_StripeEventPayload(text) ==
    LET r == from_str(text) IN
    IF r.ok /\ HasStr(r.v, "id") /\ HasStr(r.v, "type") /\ HasU64(r.v, "created")
            /\ HasBool(r.v, "livemode")
    THEN Ok([id |-> r.v["id"].s, event_type |-> r.v["type"].s,
             created |-> r.v["created"].n, livemode |-> r.v["livemode"].b])
    ELSE Err

\* V2EventPayload from the text of payload
decode_V2EventPayload(text) ==
    LET r == from_str(text) IN
    IF r.ok /\ HasStr(r.v, "id") /\ HasStr(r.v, "type")
    THEN Ok([id |-> r.v["id"].s, event_type |-> r.v["type"].s])
    ELSE Err

(***************************************************************************)
(* Outbound messages.  serde_json::to_string of an EventAck writes its     *)
(* fields in declaration order under their serialized names.               *)
(***************************************************************************)
to_string(ack) ==
    << <<"type", ack.msg_type>>, <<"event_id", ack.event_id>>,
       <<"webhook_conversation_id", ack.webhook_conversation_id>>,
       <<"webhook_id", ack.webhook_id>> >>

TextMessage(text) == [kind |-> "Text", text |-> text]
PingMessage == [kind |-> "Ping", text |-> << >>]
NoMessage == [kind |-> "none", text |-> << >>]

\* variant: the two identifiers of the envelope exchanged
WebhookAck_Swapped(evt, parsed) ==
    [msg_type |-> "event_ack",
     event_id |-> parsed.id,
     webhook_conversation_id |-> evt.webhook_id,
     webhook_id |-> evt.webhook_conversation_id]

WebhookAck(evt, parsed) ==
    [msg_type |-> "event_ack",
     event_id |-> parsed.id,
     webhook_conversation_id |-> evt.webhook_conversation_id,
     webhook_id |-> evt.webhook_id]

V2Ack(evt, parsed) ==
    [msg_type |-> "event_ack",
     event_id |-> parsed.id,
     webhook_conversation_id |-> "",
     webhook_id |-> evt.destination_id]

(***************************************************************************)
(* What the read loop decides for one text frame.                          *)
(***************************************************************************)
Drop == [act |-> "drop"]

\* variant: a payload that does not decode is replaced by an empty one
DispatchWebhook_DefaultPayload(incoming) ==
    LET e == decode_WebhookEvent(incoming.data) IN
    IF ~e.ok THEN Drop
    ELSE LET p == decode_StripeEventPayload(e.v.event_payload)
             parsed == IF p.ok THEN p.v
                       ELSE [id |-> "", event_type |-> "", created |-> 0,
                             livemode |-> FALSE] IN
         [act |-> "on_webhook_event",
          ack |-> TextMessage(to_string(WebhookAck(e.v, parsed))),
          evt |-> e.v, parsed |-> parsed]

DispatchWebhook(incoming) ==
    LET e == decode_WebhookEvent(incoming.data) IN
    IF ~e.ok THEN Drop
    ELSE LET p == decode_StripeEventPayload(e.v.event_payload) IN
         IF ~p.ok THEN Drop
         ELSE [act |-> "on_webhook_event",
               ack |-> TextMessage(to_string(WebhookAck(e.v, p.v))),
               evt |-> e.v, parsed |-> p.v]

DispatchV2(incoming) ==
    LET e == decode_V2Event(incoming.data) IN
    IF ~e.ok THEN Drop
    ELSE LET p == decode_V2EventPayload(e.v.payload) IN
         IF ~p.ok THEN Drop
         ELSE [act |-> "on_v2_event",
               ack |-> TextMessage(to_string(V2Ack(e.v, p.v))),
               evt |-> e.v, parsed |-> p.v]

Dispatch(text) ==
    LET m == decode_IncomingMessage(text) IN
    IF ~m.ok THEN Drop
    ELSE IF m.v.msg_type = "webhook_event" THEN DispatchWebhook(m.v)
    ELSE IF m.v.msg_type = "v2_event" THEN DispatchV2(m.v)
    ELSE [act |-> "on_unknown_message", raw_type |-> m.v.msg_type, data |-> m.v.data]

(***************************************************************************)
(* The relay's side: authorize responses and inbound stream items.         *)
(***************************************************************************)
Response(sent, status, body) == [sent |-> sent, status |-> status, body |-> body]

Responses ==
    { Response(FALSE, 0, ""),
      Response(TRUE, 401, BodyUnauthorized),
      Response(TRUE, 200, NotJson),
      Response(TRUE, 200, BodyPartial),
      Response(TRUE, 200, BodySession1),
      Response(TRUE, 201, BodySession2),
      Response(TRUE, 200, BodySessionBadUrl) }

is_success(status) == status >= 200 /\ status <= 299

InTexts ==
    { NotJson, TextNoType, TextNumType, TextUnknown,
      TextWebhook1, TextWebhook2, TextWebhookNoId, TextWebhookBadPayload,
      TextWebhookNegCreated, TextWebhookV2Payload,
      TextV2, TextV2NoDest, TextV2BadPayload }

Item(kind, text) == [kind |-> kind, text |-> text]

\* items after which the read loop goes on
Frames == { Item("Text", t) : t \in InTexts }
            \cup { Item("Binary", TextWebhook1), Item("Ping", ""), Item("Pong", "") }

\* the frames read in runs that go through several calls of the listener
FewFrames == { Item("Text", TextWebhook1), Item("Text", TextUnknown) }

\* items that end the read loop: Close frame, read error, end of stream
Endings == { Item("Close", ""), Item("Err", ""), Item("None", "") }
FewEndings == { Item("Close", "") }

\* the frame read from a peer that does not read
OneFrame == { Item("Text", TextWebhook1) }

(***************************************************************************)
(* Results of the two calls.                                               *)
(***************************************************************************)
Returned(op, ok, err) == [op |-> op, done |-> TRUE, ok |-> ok, err |-> err]
Running(op) == [op |-> op, done |-> FALSE, ok |-> FALSE, err |-> ""]

StateError == "call authorize() before connect()"

(***************************************************************************)
(* authorize()                                                             *)
(***************************************************************************)
\* the Result of authorize() for a response of the relay
AuthorizeOutcome(resp) ==
    IF ~resp.sent THEN [ok |-> FALSE, err |-> "request failed"]
    ELSE IF ~is_success(resp.status) THEN [ok |-> FALSE, err |-> "authorize failed (HTTP)"]
    ELSE LET d == decode_Session(resp.body) IN
         IF ~d.ok THEN [ok |-> FALSE, err |-> "decode failed"]
         ELSE [ok |-> TRUE, err |-> "", session |-> d.v]

\* variant: a session already stored is kept
Authorize_KeepsFirst(resp) ==
    /\ rpc = "idle"
    /\ nauth < MaxAuth
    /\ nauth' = nauth + 1
    /\ LET o == AuthorizeOutcome(resp) IN
         /\ result' = Returned("authorize", o.ok, o.err)
         /\ session' = IF o.ok /\ ~session.some THEN o.session ELSE session
    /\ UNCHANGED << write_tx, handshakes, dialed, nconn, chan, writer, wmsg,
                    prober, wire, enq, rpc, rcur, ingress, trace, npings,
                    sock >>

\* variant: a failed call forgets the stored session
Authorize_ClearsOnFailure(resp) ==
    /\ rpc = "idle"
    /\ nauth < MaxAuth
    /\ nauth' = nauth + 1
    /\ LET o == AuthorizeOutcome(resp) IN
         /\ result' = Returned("authorize", o.ok, o.err)
         /\ session' = IF o.ok THEN o.session ELSE None
    /\ UNCHANGED << write_tx, handshakes, dialed, nconn, chan, writer, wmsg,
                    prober, wire, enq, rpc, rcur, ingress, trace, npings,
                    sock >>

Authorize(resp) ==
    /\ rpc = "idle"
    /\ nauth < MaxAuth
    /\ nauth' = nauth + 1
    /\ LET o == AuthorizeOutcome(resp) IN
         /\ result' = Returned("authorize", o.ok, o.err)
         /\ session' = IF o.ok THEN o.session ELSE session
    /\ UNCHANGED << write_tx, handshakes, dialed, nconn, chan, writer, wmsg,
                    prober, wire, enq, rpc, rcur, ingress, trace, npings,
                    sock >>

(***************************************************************************)
(* connect(): up to the handshake                                          *)
(***************************************************************************)
\* format!("{}?websocket_feature={}", websocket_url, websocket_authorized_feature)
ws_url(s) == << s.websocket_url, "?websocket_feature=", s.websocket_authorized_feature >>

\* Url::parse: an absolute URL has a scheme
Url_parse(u) == IF u[1] \in {"wss://x", "wss://y", "wss://z"} THEN Ok(u) ELSE Err

HandshakeRequest(s) ==
    [some |-> TRUE,
     uri |-> ws_url(s),
     headers |-> ("Websocket-Id" :> s.websocket_id)
                 @@ ("Sec-WebSocket-Protocol" :> SUBPROTOCOL)
                 @@ ("User-Agent" :> "Stripe/v1 stripe-cli/1.21.0")]

\* variant: a missing session is reported as an invalid URL
ConnectPrecheck_UrlFirst(s) ==
    IF ~s.some THEN "invalid url"
    ELSE IF ~Url_parse(ws_url(s)).ok THEN "invalid url"
    ELSE ""

\* what connect() returns before it dials, "" when it goes on to dial
ConnectPrecheck(s) ==
    IF ~s.some THEN StateError
    ELSE IF ~Url_parse(ws_url(s)).ok THEN "invalid url"
    ELSE ""

ConnectRejected ==
    /\ rpc = "idle"
    /\ ConnectPrecheck(session) # ""
    /\ result' = Returned("connect", FALSE, ConnectPrecheck(session))
    /\ UNCHANGED << session, write_tx, handshakes, dialed, nconn, chan, writer,
                    wmsg, prober, wire, enq, rpc, rcur, ingress, trace, nauth,
                    npings,
                    sock >>

\* variant: the channel is created and stored before dialing
ConnectHandshakeFailed_ChannelFirst ==
    /\ rpc = "idle"
    /\ ConnectPrecheck(session) = ""
    /\ handshakes < MaxConnects
    /\ handshakes' = handshakes + 1
    /\ dialed' = HandshakeRequest(session)
    /\ write_tx' = nconn + 1
    /\ result' = Returned("connect", FALSE, "handshake failed")
    /\ UNCHANGED << session, nconn, chan, writer, wmsg, prober, wire,
                    enq, rpc, rcur, ingress, trace, nauth, npings,
                    sock >>

ConnectHandshakeFailed ==
    /\ rpc = "idle"
    /\ ConnectPrecheck(session) = ""
    /\ handshakes < MaxConnects
    /\ handshakes' = handshakes + 1
    /\ dialed' = HandshakeRequest(session)
    /\ result' = Returned("connect", FALSE, "handshake failed")
    /\ UNCHANGED << session, write_tx, nconn, chan, writer, wmsg, prober, wire,
                    enq, rpc, rcur, ingress, trace, nauth, npings,
                    sock >>

NoDelivery == [act |-> "none"]

\* the handshake succeeded: channel, write loop, ping loop, then the read loop
ConnectEstablished ==
    /\ rpc = "idle"
    /\ ConnectPrecheck(session) = ""
    /\ handshakes < MaxConnects
    /\ handshakes' = handshakes + 1
    /\ dialed' = HandshakeRequest(session)
    /\ nconn' = nconn + 1
    /\ write_tx' = nconn + 1
    /\ chan' = [chan EXCEPT ![nconn + 1] = [queue |-> << >>, closed |-> FALSE]]
    /\ writer' = [writer EXCEPT ![nconn + 1] = "recv"]
    /\ prober' = [prober EXCEPT ![nconn + 1] = "running"]
    /\ rpc' = "recv"
    /\ rcur' = NoDelivery
    /\ result' = Running("connect")
    /\ sock' = [sock EXCEPT ![nconn + 1] = "open"]
    /\ UNCHANGED << session, wmsg, wire, enq, ingress, trace, nauth, npings >>

(***************************************************************************)
(* The mpsc channel.                                                       *)
(***************************************************************************)
\* who holds a Sender of connection c's channel
Senders(c) ==
    (IF write_tx = c THEN {"listener"} ELSE {})
    \cup (IF prober[c] = "running" THEN {"prober"} ELSE {})
    \cup (IF rpc # "idle" /\ nconn = c THEN {"connect"} ELSE {})

\* Sender::send: "ok" when the message is queued, "closed" when the receiver
\* is gone, "wait" while the queue is full
SendOutcome(c) ==
    IF chan[c].closed THEN "closed"
    ELSE IF Len(chan[c].queue) < ChannelCapacity THEN "ok"
    ELSE "wait"

(***************************************************************************)
(* Write loop of connection c.                                             *)
(***************************************************************************)
\* variant: the newest queued message is taken first
WriterRecv_Newest(c) ==
    /\ writer[c] = "recv"
    /\ IF chan[c].queue # << >>
       THEN /\ wmsg' = [wmsg EXCEPT ![c] = chan[c].queue[Len(chan[c].queue)]]
            /\ chan' = [chan EXCEPT ![c].queue = SubSeq(@, 1, Len(@) - 1)]
            /\ writer' = [writer EXCEPT ![c] = "send"]
       ELSE /\ Senders(c) = {}
            /\ chan' = [chan EXCEPT ![c].closed = TRUE]
            /\ writer' = [writer EXCEPT ![c] = "done"]
            /\ UNCHANGED wmsg
    /\ UNCHANGED << session, write_tx, result, handshakes, dialed, nconn,
                    prober, wire, enq, rpc, rcur, ingress, trace, nauth, npings,
                    sock >>

\* rx.recv(): the next queued message, or None once every Sender is gone
WriterRecv(c) ==
    /\ writer[c] = "recv"
    /\ IF chan[c].queue # << >>
       THEN /\ wmsg' = [wmsg EXCEPT ![c] = Head(chan[c].queue)]
            /\ chan' = [chan EXCEPT ![c].queue = Tail(@)]
            /\ writer' = [writer EXCEPT ![c] = "send"]
       ELSE /\ Senders(c) = {}
            /\ chan' = [chan EXCEPT ![c].closed = TRUE]
            /\ writer' = [writer EXCEPT ![c] = "done"]
            /\ UNCHANGED wmsg
    /\ UNCHANGED << session, write_tx, result, handshakes, dialed, nconn,
                    prober, wire, enq, rpc, rcur, ingress, trace, nauth, npings,
                    sock >>

\* write.send(msg) succeeded
WriterSent(c) ==
    /\ writer[c] = "send"
    /\ sock[c] = "open"
    /\ wire' = [wire EXCEPT ![c] = Append(@, wmsg[c])]
    /\ wmsg' = [wmsg EXCEPT ![c] = NoMessage]
    /\ writer' = [writer EXCEPT ![c] = "recv"]
    /\ UNCHANGED << session, write_tx, result, handshakes, dialed, nconn, chan,
                    prober, enq, rpc, rcur, ingress, trace, nauth, npings,
                    sock >>

\* variant: the receiver outlives the write loop
WriterFailed_KeepsReceiver(c) ==
    /\ writer[c] = "send"
    /\ sock[c] # "stalled"
    /\ writer' = [writer EXCEPT ![c] = "done"]
    /\ wmsg' = [wmsg EXCEPT ![c] = NoMessage]
    /\ UNCHANGED << session, write_tx, result, handshakes, dialed, nconn, chan,
                    prober, wire, enq, rpc, rcur, ingress, trace, nauth, npings,
                    sock >>

\* variant: a write error also ends the read loop of the connection
WriterFailed_EndsSession(c) ==
    /\ writer[c] = "send"
    /\ sock[c] # "stalled"
    /\ writer' = [writer EXCEPT ![c] = "done"]
    /\ wmsg' = [wmsg EXCEPT ![c] = NoMessage]
    /\ chan' = [chan EXCEPT ![c] = [queue |-> << >>, closed |-> TRUE]]
    /\ IF c = nconn /\ rpc # "idle"
       THEN rpc' = "idle" /\ result' = Returned("connect", TRUE, "")
       ELSE UNCHANGED << rpc, result >>
    /\ UNCHANGED << session, write_tx, handshakes, dialed, nconn,
                    prober, wire, enq, rcur, ingress, trace, nauth, npings, sock >>

\* write.send(msg) failed: the loop breaks and rx is dropped with what it holds;
\* it stays pending, without a deadline, while the peer does not read
WriterFailed(c) ==
    /\ writer[c] = "send"
    /\ sock[c] # "stalled"
    /\ writer' = [writer EXCEPT ![c] = "done"]
    /\ wmsg' = [wmsg EXCEPT ![c] = NoMessage]
    /\ chan' = [chan EXCEPT ![c] = [queue |-> << >>, closed |-> TRUE]]
    /\ UNCHANGED << session, write_tx, result, handshakes, dialed, nconn,
                    prober, wire, enq, rpc, rcur, ingress, trace, nauth, npings,
                    sock >>

(***************************************************************************)
(* Ping loop of connection c.                                              *)
(***************************************************************************)
\* variant: a tick sends two pings
ProberPing_Twice(c) ==
    /\ prober[c] = "running"
    /\ SendOutcome(c) = "ok"
    /\ npings < MaxPings
    /\ npings' = npings + 1
    /\ chan' = [chan EXCEPT ![c].queue = Append(Append(@, PingMessage), PingMessage)]
    /\ enq' = [enq EXCEPT ![c] = Append(Append(@, PingMessage), PingMessage)]
    /\ UNCHANGED << session, write_tx, result, handshakes, dialed, nconn, writer,
                    wmsg, prober, wire, rpc, rcur, ingress, trace, nauth,
                    sock >>

\* a tick whose send is accepted
ProberPing(c) ==
    /\ prober[c] = "running"
    /\ SendOutcome(c) = "ok"
    /\ npings < MaxPings
    /\ npings' = npings + 1
    /\ chan' = [chan EXCEPT ![c].queue = Append(@, PingMessage)]
    /\ enq' = [enq EXCEPT ![c] = Append(@, PingMessage)]
    /\ UNCHANGED << session, write_tx, result, handshakes, dialed, nconn, writer,
                    wmsg, prober, wire, rpc, rcur, ingress, trace, nauth,
                    sock >>

\* a tick on a socket that takes no more writes; these pings are not counted.
\* After the socket closed, the write loop idle: the ping whose write fails.
\* While the peer does not read: the capacity of the channel bounds them.
ProberPingClosed(c) ==
    /\ prober[c] = "running"
    /\ SendOutcome(c) = "ok"
    /\ \/ sock[c] = "closed" /\ writer[c] = "recv" /\ chan[c].queue = << >>
       \/ sock[c] = "stalled"
    /\ chan' = [chan EXCEPT ![c].queue = Append(@, PingMessage)]
    /\ enq' = [enq EXCEPT ![c] = Append(@, PingMessage)]
    /\ UNCHANGED << session, write_tx, result, handshakes, dialed, nconn, writer,
                    wmsg, prober, wire, rpc, rcur, ingress, trace, nauth, npings,
                    sock >>

\* a tick whose send fails: the loop breaks
ProberFailed(c) ==
    /\ prober[c] = "running"
    /\ SendOutcome(c) = "closed"
    /\ prober' = [prober EXCEPT ![c] = "done"]
    /\ UNCHANGED << session, write_tx, result, handshakes, dialed, nconn, chan,
                    writer, wmsg, wire, enq, rpc, rcur, ingress, trace, nauth,
                    npings,
                    sock >>

(***************************************************************************)
(* Read loop of the running connect().                                     *)
(***************************************************************************)
UnknownCall(n, d) ==
    [ev |-> "on_unknown_message", n |-> n, raw_type |-> d.raw_type, data |-> d.data]
EventCall(n, d) ==
    [ev |-> d.act, n |-> n, evt |-> d.evt, parsed |-> d.parsed]
AckEvent(n, msg, sent) ==
    [ev |-> "ack", n |-> n, msg |-> msg, sent |-> sent]

\* variant: a delivery goes to its callback without an acknowledgment
ReaderFrame_SkipsAck(item) ==
    /\ rpc = "recv"
    /\ sock[nconn] \in {"open", "stalled"}
    /\ Cardinality({ i \in DOMAIN ingress : ingress[i] \in Frames }) < MaxFrames
    /\ ingress' = Append(ingress, item)
    /\ LET d == IF item.kind = "Text" THEN Dispatch(item.text) ELSE Drop
           n == Len(ingress) + 1 IN
         IF d.act \in {"on_webhook_event", "on_v2_event"}
         THEN /\ rcur' = d
              /\ rpc' = "notify"
              /\ UNCHANGED trace
         ELSE IF d.act = "on_unknown_message"
         THEN /\ trace' = Append(trace, UnknownCall(n, d))
              /\ UNCHANGED << rcur, rpc >>
         ELSE UNCHANGED << rcur, rpc, trace >>
    /\ UNCHANGED << session, write_tx, result, handshakes, dialed, nconn, chan,
                    writer, wmsg, prober, wire, enq, nauth, npings,
                    sock >>

\* variant: a text frame that does not decode ends the read loop
ReaderFrame_BreaksOnDrop(item) ==
    /\ rpc = "recv"
    /\ sock[nconn] \in {"open", "stalled"}
    /\ Cardinality({ i \in DOMAIN ingress : ingress[i] \in Frames }) < MaxFrames
    /\ ingress' = Append(ingress, item)
    /\ LET d == IF item.kind = "Text" THEN Dispatch(item.text) ELSE Drop
           n == Len(ingress) + 1 IN
         IF d.act \in {"on_webhook_event", "on_v2_event"}
         THEN /\ rcur' = d
              /\ rpc' = "ack"
              /\ UNCHANGED << trace, result >>
         ELSE IF d.act = "on_unknown_message"
         THEN /\ trace' = Append(trace, UnknownCall(n, d))
              /\ UNCHANGED << rcur, rpc, result >>
         ELSE IF item.kind = "Text"
         THEN /\ rpc' = "idle"
              /\ result' = Returned("connect", TRUE, "")
              /\ UNCHANGED << rcur, trace >>
         ELSE UNCHANGED << rcur, rpc, trace, result >>
    /\ UNCHANGED << session, write_tx, handshakes, dialed, nconn, chan,
                    writer, wmsg, prober, wire, enq, nauth, npings,
                    sock >>

\* number of frames read so far (the items that did not end a read loop)
FramesRead == Cardinality({ i \in DOMAIN ingress : ingress[i] \in Frames })

\* variant: a binary frame is decoded like a text frame
ReaderFrame_DecodesBinary(item) ==
    /\ rpc = "recv"
    /\ sock[nconn] \in {"open", "stalled"}
    /\ FramesRead < MaxFrames
    /\ ingress' = Append(ingress, item)
    /\ LET d == IF item.kind \in {"Text", "Binary"} THEN Dispatch(item.text) ELSE Drop
           n == Len(ingress) + 1 IN
         IF d.act \in {"on_webhook_event", "on_v2_event"}
         THEN /\ rcur' = d
              /\ rpc' = "ack"
              /\ UNCHANGED trace
         ELSE IF d.act = "on_unknown_message"
         THEN /\ trace' = Append(trace, UnknownCall(n, d))
              /\ UNCHANGED << rcur, rpc >>
         ELSE UNCHANGED << rcur, rpc, trace >>
    /\ UNCHANGED << session, write_tx, result, handshakes, dialed, nconn, chan,
                    writer, wmsg, prober, wire, enq, nauth, npings,
                    sock >>

\* read.next() yields a frame the loop handles and goes on; a closed socket
\* yields no more frames
ReaderFrame(item) ==
    /\ rpc = "recv"
    /\ sock[nconn] \in {"open", "stalled"}
    /\ FramesRead < MaxFrames
    /\ ingress' = Append(ingress, item)
    /\ LET d == IF item.kind = "Text" THEN Dispatch(item.text) ELSE Drop
           n == Len(ingress) + 1 IN
         IF d.act \in {"on_webhook_event", "on_v2_event"}
         THEN /\ rcur' = d
              /\ rpc' = "ack"
              /\ UNCHANGED trace
         ELSE IF d.act = "on_unknown_message"
         THEN /\ trace' = Append(trace, UnknownCall(n, d))
              /\ UNCHANGED << rcur, rpc >>
         ELSE UNCHANGED << rcur, rpc, trace >>
    /\ UNCHANGED << session, write_tx, result, handshakes, dialed, nconn, chan,
                    writer, wmsg, prober, wire, enq, nauth, npings,
                    sock >>

\* variant: a refused acknowledgment ends connect() with an error
ReaderAck_BreaksOnError ==
    /\ rpc = "ack"
    /\ SendOutcome(nconn) # "wait"
    /\ IF SendOutcome(nconn) = "ok"
       THEN /\ chan' = [chan EXCEPT ![nconn].queue = Append(@, rcur.ack)]
            /\ enq' = [enq EXCEPT ![nconn] = Append(@, rcur.ack)]
            /\ trace' = Append(trace, AckEvent(Len(ingress), rcur.ack, TRUE))
            /\ rpc' = "notify"
            /\ UNCHANGED result
       ELSE /\ trace' = Append(trace, AckEvent(Len(ingress), rcur.ack, FALSE))
            /\ rpc' = "idle"
            /\ result' = Returned("connect", FALSE, "channel closed")
            /\ UNCHANGED << chan, enq >>
    /\ UNCHANGED << session, write_tx, handshakes, dialed, nconn, writer,
                    wmsg, prober, wire, rcur, ingress, nauth, npings,
                    sock >>

\* variant: an acknowledgment goes to the front of the queue
ReaderAck_Front ==
    /\ rpc = "ack"
    /\ SendOutcome(nconn) # "wait"
    /\ IF SendOutcome(nconn) = "ok"
       THEN /\ chan' = [chan EXCEPT ![nconn].queue = << rcur.ack >> \o @]
            /\ enq' = [enq EXCEPT ![nconn] = << rcur.ack >> \o @]
            /\ trace' = Append(trace, AckEvent(Len(ingress), rcur.ack, TRUE))
       ELSE /\ trace' = Append(trace, AckEvent(Len(ingress), rcur.ack, FALSE))
            /\ UNCHANGED << chan, enq >>
    /\ rpc' = "notify"
    /\ UNCHANGED << session, write_tx, result, handshakes, dialed, nconn, writer,
                    wmsg, prober, wire, rcur, ingress, nauth, npings,
                    sock >>

\* tx_ack.send(ack): queued, or refused (and ignored) when the receiver is gone
ReaderAck ==
    /\ rpc = "ack"
    /\ SendOutcome(nconn) # "wait"
    /\ IF SendOutcome(nconn) = "ok"
       THEN /\ chan' = [chan EXCEPT ![nconn].queue = Append(@, rcur.ack)]
            /\ enq' = [enq EXCEPT ![nconn] = Append(@, rcur.ack)]
            /\ trace' = Append(trace, AckEvent(Len(ingress), rcur.ack, TRUE))
       ELSE /\ trace' = Append(trace, AckEvent(Len(ingress), rcur.ack, FALSE))
            /\ UNCHANGED << chan, enq >>
    /\ rpc' = "notify"
    /\ UNCHANGED << session, write_tx, result, handshakes, dialed, nconn, writer,
                    wmsg, prober, wire, rcur, ingress, nauth, npings,
                    sock >>

\* handler.on_webhook_event / handler.on_v2_event
ReaderNotify ==
    /\ rpc = "notify"
    /\ trace' = Append(trace, EventCall(Len(ingress), rcur))
    /\ rcur' = NoDelivery
    /\ rpc' = "recv"
    /\ UNCHANGED << session, write_tx, result, handshakes, dialed, nconn, chan,
                    writer, wmsg, prober, wire, enq, ingress, nauth, npings,
                    sock >>

\* Close frame, read error or end of stream: the loop ends, connect() returns Ok.
\* A Close frame arrives on an open socket and closes it to further writes;
\* the stream ends only on a closed socket; a read error comes in either case.
ReaderEnd(item) ==
    /\ rpc = "recv"
    /\ item.kind = "Close" => sock[nconn] = "open"
    /\ item.kind = "None" => sock[nconn] = "closed"
    /\ ingress' = Append(ingress, item)
    /\ rpc' = "idle"
    /\ result' = Returned("connect", TRUE, "")
    /\ sock' = IF item.kind = "Close" THEN [sock EXCEPT ![nconn] = "closed"] ELSE sock
    /\ UNCHANGED << session, write_tx, handshakes, dialed, nconn, chan, writer,
                    wmsg, prober, wire, enq, rcur, trace, nauth, npings >>

(***************************************************************************)
(* The network: the socket of connection c is closed or lost.              *)
(***************************************************************************)
SocketLost(c) ==
    /\ sock[c] \in {"open", "stalled"}
    /\ sock' = [sock EXCEPT ![c] = "closed"]
    /\ UNCHANGED << session, write_tx, result, handshakes, dialed, nconn, chan,
                    writer, wmsg, prober, wire, enq, rpc, rcur, ingress, trace,
                    nauth, npings >>

(***************************************************************************)
(* The specification.                                                      *)
(***************************************************************************)
Init ==
    /\ session = None
    /\ write_tx = 0
    /\ result = Returned("new", TRUE, "")
    /\ handshakes = 0
    /\ dialed = None
    /\ nconn = 0
    /\ chan = [c \in Conns |-> [queue |-> << >>, closed |-> FALSE]]
    /\ writer = [c \in Conns |-> "none"]
    /\ wmsg = [c \in Conns |-> NoMessage]
    /\ prober = [c \in Conns |-> "none"]
    /\ wire = [c \in Conns |-> << >>]
    /\ enq = [c \in Conns |-> << >>]
    /\ rpc = "idle"
    /\ rcur = NoDelivery
    /\ ingress = << >>
    /\ trace = << >>
    /\ nauth = 0
    /\ npings = 0
    /\ sock = [c \in Conns |-> "none"]

Next ==
    \/ \E resp \in Responses : Authorize(resp)
    \/ ConnectRejected
    \/ ConnectHandshakeFailed
    \/ ConnectEstablished
    \/ \E c \in Conns : WriterRecv(c)
    \/ \E c \in Conns : WriterSent(c)
    \/ \E c \in Conns : WriterFailed(c)
    \/ \E c \in Conns : ProberPing(c)
    \/ \E c \in Conns : ProberFailed(c)
    \/ \E item \in FewFrames : ReaderFrame(item)
    \/ ReaderAck
    \/ ReaderNotify
    \/ \E item \in FewEndings : ReaderEnd(item)

Spec == Init /\ [][Next]_vars

(***************************************************************************)
(* One session: the state right after authorize() stored a session and     *)
(* connect() completed its handshake, and the three loops from there on,   *)
(* with every kind of inbound frame.                                       *)
(***************************************************************************)
InitSession ==
    /\ session \in { decode_Session(b).v : b \in {BodySession1} }
    /\ write_tx = 1
    /\ result = Running("connect")
    /\ handshakes = 1
    /\ dialed = HandshakeRequest(session)
    /\ nconn = 1
    /\ chan = [c \in Conns |-> [queue |-> << >>, closed |-> FALSE]]
    /\ writer = [c \in Conns |-> IF c = 1 THEN "recv" ELSE "none"]
    /\ wmsg = [c \in Conns |-> NoMessage]
    /\ prober = [c \in Conns |-> IF c = 1 THEN "running" ELSE "none"]
    /\ wire = [c \in Conns |-> << >>]
    /\ enq = [c \in Conns |-> << >>]
    /\ rpc = "recv"
    /\ rcur = NoDelivery
    /\ ingress = << >>
    /\ trace = << >>
    /\ nauth = 1
    /\ npings = 0
    /\ sock = [c \in Conns |-> IF c = 1 THEN "open" ELSE "none"]

NextSession ==
    \/ \E c \in Conns : WriterRecv(c)
    \/ \E c \in Conns : WriterSent(c)
    \/ \E c \in Conns : WriterFailed(c)
    \/ \E c \in Conns : ProberPing(c)
    \/ \E c \in Conns : ProberFailed(c)
    \/ \E item \in Frames : ReaderFrame(item)
    \/ ReaderAck
    \/ ReaderNotify
    \/ \E item \in Endings : ReaderEnd(item)
    \/ \E c \in Conns : SocketLost(c)
    \/ \E c \in Conns : ProberPingClosed(c)

SpecSession == InitSession /\ [][NextSession]_vars

(***************************************************************************)
(* One session under fair scheduling.  The runtime keeps polling the three *)
(* loops: a send on the channel completes when there is room or the        *)
(* receiver is gone, a handler call returns, the ticker keeps ticking; a   *)
(* read and a write on a closed socket fail.  Nothing makes a write on an  *)
(* open socket complete.                                                   *)
(***************************************************************************)
NextSessionFew ==
    \/ \E c \in Conns : WriterRecv(c)
    \/ \E c \in Conns : WriterSent(c)
    \/ \E c \in Conns : WriterFailed(c)
    \/ \E c \in Conns : ProberPing(c)
    \/ \E c \in Conns : ProberFailed(c)
    \/ \E item \in FewFrames : ReaderFrame(item)
    \/ ReaderAck
    \/ ReaderNotify
    \/ \E item \in Endings : ReaderEnd(item)
    \/ \E c \in Conns : SocketLost(c)
    \/ \E c \in Conns : ProberPingClosed(c)

ReaderEndClosed == sock[nconn] = "closed" /\ \E item \in Endings : ReaderEnd(item)
WriterFailedClosed(c) == sock[c] = "closed" /\ WriterFailed(c)

Fairness ==
    /\ WF_vars(ReaderAck)
    /\ WF_vars(ReaderNotify)
    /\ WF_vars(ReaderEndClosed)
    /\ \A c \in Conns : /\ WF_vars(WriterRecv(c))
                        /\ WF_vars(WriterFailedClosed(c))
                        /\ WF_vars(ProberPing(c))
                        /\ WF_vars(ProberPingClosed(c))
                        /\ WF_vars(ProberFailed(c))

SpecSessionFair == InitSession /\ [][NextSessionFew]_vars /\ Fairness

(***************************************************************************)
(* A session whose peer completes the handshake and then stops reading:    *)
(* a write stays pending until the socket is closed.  The ticker keeps     *)
(* ticking, the peer may still send, and nothing forces the socket to      *)
(* close.                                                                  *)
(***************************************************************************)
InitStalled ==
    /\ session \in { decode_Session(b).v : b \in {BodySession1} }
    /\ write_tx = 1
    /\ result = Running("connect")
    /\ handshakes = 1
    /\ dialed = HandshakeRequest(session)
    /\ nconn = 1
    /\ chan = [c \in Conns |-> [queue |-> << >>, closed |-> FALSE]]
    /\ writer = [c \in Conns |-> IF c = 1 THEN "recv" ELSE "none"]
    /\ wmsg = [c \in Conns |-> NoMessage]
    /\ prober = [c \in Conns |-> IF c = 1 THEN "running" ELSE "none"]
    /\ wire = [c \in Conns |-> << >>]
    /\ enq = [c \in Conns |-> << >>]
    /\ rpc = "recv"
    /\ rcur = NoDelivery
    /\ ingress = << >>
    /\ trace = << >>
    /\ nauth = 1
    /\ npings = 0
    /\ sock = [c \in Conns |-> IF c = 1 THEN "stalled" ELSE "none"]

NextStalled ==
    \/ \E c \in Conns : WriterRecv(c)
    \/ \E c \in Conns : WriterFailed(c)
    \/ \E c \in Conns : ProberPingClosed(c)
    \/ \E c \in Conns : ProberFailed(c)
    \/ \E item \in OneFrame : ReaderFrame(item)
    \/ ReaderAck
    \/ ReaderNotify
    \/ \E item \in Endings : ReaderEnd(item)
    \/ \E c \in Conns : SocketLost(c)

FairnessStalled ==
    /\ WF_vars(ReaderAck)
    /\ WF_vars(ReaderNotify)
    /\ WF_vars(ReaderEndClosed)
    /\ \A c \in Conns : /\ WF_vars(WriterRecv(c))
                        /\ WF_vars(WriterFailedClosed(c))
                        /\ WF_vars(ProberPingClosed(c))
                        /\ WF_vars(ProberFailed(c))

SpecStalled == InitStalled /\ [][NextStalled]_vars /\ FairnessStalled

(***************************************************************************)
(* Vocabulary of the properties.                                           *)
(***************************************************************************)
IsPrefix(a, b) == Len(a) <= Len(b) /\ \A i \in 1..Len(a) : a[i] = b[i]

\* the case a text frame falls in: "webhook_event" / "v2_event" when the
\* delivery envelope and its inner payload decode, "unknown" for any other
\* declared kind, "undecodable" when a decoding stage fails
FrameCase(text) ==
    LET m == decode_IncomingMessage(text) IN
    IF ~m.ok THEN "undecodable"
    ELSE IF m.v.msg_type = "webhook_event"
         THEN IF /\ decode_WebhookEvent(m.v.data).ok
                 /\ decode_StripeEventPayload(
                        decode_WebhookEvent(m.v.data).v.event_payload).ok
              THEN "webhook_event" ELSE "undecodable"
    ELSE IF m.v.msg_type = "v2_event"
         THEN IF /\ decode_V2Event(m.v.data).ok
                 /\ decode_V2EventPayload(decode_V2Event(m.v.data).v.payload).ok
              THEN "v2_event" ELSE "undecodable"
    ELSE "unknown"

ItemCase(n) == IF ingress[n].kind = "Text" THEN FrameCase(ingress[n].text)
               ELSE ingress[n].kind

IsDelivery(n) == ItemCase(n) \in {"webhook_event", "v2_event"}

\* the read loop has finished with item n
Handled(n) == n < Len(ingress) \/ rpc \in {"recv", "idle"}

AttemptsFor(n) == { i \in DOMAIN trace : trace[i].ev = "ack" /\ trace[i].n = n }
EnqueuedFor(n) == { i \in AttemptsFor(n) : trace[i].sent }
CallsFor(n) == { i \in DOMAIN trace : trace[i].ev # "ack" /\ trace[i].n = n }

IsSentAck(e) == e.ev = "ack" /\ e.sent
IsTextMessage(m) == m.kind = "Text"
SentAcks == LET S == SelectSeq(trace, IsSentAck) IN [i \in 1..Len(S) |-> S[i].msg]

\* the acknowledgment the protocol asks for a delivery
ExpectedAck(text) ==
    LET doc == JsonDoc[text] IN
    IF doc["type"].s = "webhook_event"
    THEN TextMessage(<< <<"type", "event_ack">>,
                        <<"event_id", JsonDoc[doc["event_payload"].s]["id"].s>>,
                        <<"webhook_conversation_id", doc["webhook_conversation_id"].s>>,
                        <<"webhook_id", doc["webhook_id"].s>> >>)
    ELSE TextMessage(<< <<"type", "event_ack">>,
                        <<"event_id", JsonDoc[doc["payload"].s]["id"].s>>,
                        <<"webhook_conversation_id", "">>,
                        <<"webhook_id", doc["destination_id"].s>> >>)

(***************************************************************************)
(* C1  (as stated)  Every decodable webhook_event / v2_event frame whose   *)
(* callback was invoked had exactly one acknowledgment enqueued on the     *)
(* egress queue before the callback, also after the writer terminated.     *)
(***************************************************************************)
C1_AckEnqueuedBeforeCallback ==
    \A n \in DOMAIN ingress :
        IsDelivery(n) =>
            \A k \in CallsFor(n) :
                /\ Cardinality(EnqueuedFor(n)) = 1
                /\ \A a \in EnqueuedFor(n) : a < k

(***************************************************************************)
(* C1  (amended)  For every decodable webhook_event / v2_event frame the    *)
(* read loop makes exactly one attempt to enqueue an acknowledgment, and   *)
(* makes it before the callback.  The attempt enqueues exactly one frame   *)
(* when the receiver of the egress queue is alive, and enqueues nothing    *)
(* when the writer has terminated; the callback follows in both cases.     *)
(***************************************************************************)
C1_State ==
    /\ \A n \in DOMAIN ingress :
          IsDelivery(n) =>
            /\ Cardinality(AttemptsFor(n)) <= 1
            /\ Cardinality(CallsFor(n)) <= 1
            /\ \A k \in CallsFor(n) : \E a \in AttemptsFor(n) : a < k
            /\ Handled(n) => /\ Cardinality(AttemptsFor(n)) = 1
                             /\ Cardinality(CallsFor(n)) = 1
            /\ (n = Len(ingress) /\ rpc = "ack") => AttemptsFor(n) = {}
            /\ (n = Len(ingress) /\ rpc = "notify") =>
                   Cardinality(AttemptsFor(n)) = 1 /\ CallsFor(n) = {}
    /\ SelectSeq(enq[1], IsTextMessage) = SentAcks

C1_Step ==
    (rpc = "ack" /\ rpc' # "ack") =>
        /\ rpc' = "notify"
        /\ IF chan[nconn].closed
           THEN enq' = enq /\ chan' = chan
           ELSE /\ Len(enq'[nconn]) = Len(enq[nconn]) + 1
                /\ Len(chan'[nconn].queue) = Len(chan[nconn].queue) + 1

C1_AckAttemptBeforeCallback == []C1_State /\ [][C1_Step]_vars

\* both cases: a delivery acknowledged, the writer gone, a second delivery
\* whose acknowledgment was refused, both callbacks made
C1_Witness ==
    /\ Len(ingress) = 2 /\ IsDelivery(1) /\ IsDelivery(2)
    /\ writer[1] = "done" /\ rpc = "recv"
    /\ EnqueuedFor(1) # {} /\ AttemptsFor(2) # {} /\ EnqueuedFor(2) = {}
    /\ CallsFor(1) # {} /\ CallsFor(2) # {}

(***************************************************************************)
(* C2  Every acknowledgment the read loop sends is the event_ack of the    *)
(* delivery it answers: event id of the inner payload; for webhook_event   *)
(* the envelope's conversation and webhook identifiers, for v2_event an    *)
(* empty conversation identifier and the destination identifier.           *)
(***************************************************************************)
C2_AckIdentifiers ==
    /\ \A i \in DOMAIN trace :
          trace[i].ev = "ack" =>
              /\ IsDelivery(trace[i].n)
              /\ trace[i].msg = ExpectedAck(ingress[trace[i].n].text)
    /\ \A c \in Conns : \A j \in DOMAIN enq[c] :
          enq[c][j].kind = "Text" =>
              \E i \in DOMAIN trace : IsSentAck(trace[i]) /\ trace[i].msg = enq[c][j]
    /\ \A i \in DOMAIN trace :
          (trace[i].ev = "ack" /\ ingress[trace[i].n].text = TextWebhook1) =>
              trace[i].msg.text = << <<"type", "event_ack">>, <<"event_id", "evt_1">>,
                                     <<"webhook_conversation_id", "wc_1">>,
                                     <<"webhook_id", "wh_1">> >>
    /\ \A i \in DOMAIN trace :
          (trace[i].ev = "ack" /\ ingress[trace[i].n].text = TextV2) =>
              trace[i].msg.text = << <<"type", "event_ack">>, <<"event_id", "evt_3">>,
                                     <<"webhook_conversation_id", "">>,
                                     <<"webhook_id", "dest_1">> >>

\* a webhook_event and a v2_event, both acknowledged on the queue
C2_Witness ==
    /\ Len(enq[1]) >= 2
    /\ \E i, j \in DOMAIN trace :
          /\ IsSentAck(trace[i]) /\ IsSentAck(trace[j])
          /\ ItemCase(trace[i].n) = "webhook_event"
          /\ ItemCase(trace[j].n) = "v2_event"

(***************************************************************************)
(* C3  A text frame that decodes as an inbound envelope of any other kind  *)
(* gets exactly one on_unknown_message call, with the declared kind and    *)
(* the remaining fields as received, no other call and no acknowledgment.  *)
(***************************************************************************)
C3_UnknownKind ==
    \A n \in DOMAIN ingress :
        ItemCase(n) = "unknown" =>
            /\ AttemptsFor(n) = {}
            /\ Cardinality(CallsFor(n)) = 1
            /\ \A k \in CallsFor(n) :
                  LET doc == JsonDoc[ingress[n].text] IN
                  /\ trace[k].ev = "on_unknown_message"
                  /\ trace[k].raw_type = doc["type"].s
                  /\ DOMAIN trace[k].data = (DOMAIN doc) \ {"type"}
                  /\ \A f \in DOMAIN trace[k].data : trace[k].data[f] = doc[f]

\* an unknown frame handled while nothing was ever enqueued
C3_Witness ==
    /\ \E n \in DOMAIN ingress : ItemCase(n) = "unknown" /\ CallsFor(n) # {}
    /\ enq[1] = << >>

(***************************************************************************)
(* C4  A text frame that fails to decode at any stage is dropped: nothing  *)
(* is sent or called for it, and the read loop keeps running.              *)
(***************************************************************************)
C4_DecodeFailureDrops ==
    \A n \in DOMAIN ingress :
        ItemCase(n) = "undecodable" =>
            /\ AttemptsFor(n) = {}
            /\ CallsFor(n) = {}
            /\ n = Len(ingress) => rpc = "recv"

\* an undecodable frame first, then a delivery handled as usual
C4_Witness ==
    /\ Len(ingress) = 2
    /\ ItemCase(1) = "undecodable" /\ IsDelivery(2)
    /\ EnqueuedFor(2) # {} /\ CallsFor(2) # {}

(***************************************************************************)
(* C5  While no authorize() has succeeded, connect() returns the state     *)
(* error and nothing else happens: no handshake, no egress queue, no       *)
(* writer, prober or reader, the session still unset.                      *)
(***************************************************************************)
C5_ConnectBeforeAuthorize ==
    ~session.some =>
        /\ result.op = "connect" => result = Returned("connect", FALSE, StateError)
        /\ handshakes = 0 /\ ~dialed.some
        /\ nconn = 0 /\ write_tx = 0
        /\ \A c \in Conns : /\ writer[c] = "none" /\ prober[c] = "none"
                            /\ chan[c] = [queue |-> << >>, closed |-> FALSE]
                            /\ enq[c] = << >> /\ wire[c] = << >>
        /\ rpc = "idle" /\ ingress = << >> /\ trace = << >>

\* connect() was called on a listener whose authorize() calls all failed
C5_Witness == ~session.some /\ result.op = "connect" /\ nauth > 0

(***************************************************************************)
(* C6  An authorize() that gets no response, a non-success status or a     *)
(* body that is not a complete session returns an error and stores         *)
(* nothing: a listener without a session is still without one, so that     *)
(* connect() is still refused; a stored session always has all its fields. *)
(***************************************************************************)
CompleteBodies == { BodySession1, BodySession2, BodySessionBadUrl }

Refused(resp) ==
    ~resp.sent \/ resp.status < 200 \/ resp.status > 299
               \/ resp.body \notin CompleteBodies

SessionWhole ==
    session.some =>
        /\ DOMAIN session = {"some", "websocket_id", "websocket_url",
                             "websocket_authorized_feature"}
        /\ session.websocket_id \in {"ws_1", "ws_2", "ws_3"}
        /\ session.websocket_url \in {"wss://x", "wss://y", "no url"}
        /\ session.websocket_authorized_feature \in {"webhooks", "webhooks_v2"}

C6_Step ==
    \A resp \in Responses :
        (Authorize(resp) /\ Refused(resp) /\ ~session.some) =>
            /\ result'.op = "authorize" /\ result'.done /\ ~result'.ok
            /\ result'.err # ""
            /\ session' = None
            /\ ConnectPrecheck(session') = StateError

C6_FailedAuthorizeStaysIdle == []SessionWhole /\ [][C6_Step]_vars

\* a failed authorize() on a fresh listener, then a refused connect()
C6_Witness ==
    /\ nauth = 2 /\ ~session.some
    /\ result = Returned("connect", FALSE, StateError)

(***************************************************************************)
(* C8  A successful authorize() stores exactly the session of its          *)
(* response, whatever was stored before, and every handshake is made with  *)
(* the URL, capability and socket identifier of the stored session.        *)
(***************************************************************************)
SessionOf(body) ==
    [some |-> TRUE,
     websocket_id |-> JsonDoc[body]["websocket_id"].s,
     websocket_url |-> JsonDoc[body]["websocket_url"].s,
     websocket_authorized_feature |-> JsonDoc[body]["websocket_authorized_feature"].s]

C8_Step ==
    /\ \A resp \in Responses :
          (Authorize(resp) /\ ~Refused(resp)) =>
              /\ session' = SessionOf(resp.body)
              /\ result' = Returned("authorize", TRUE, "")
    /\ handshakes' # handshakes =>
          /\ dialed'.some
          /\ dialed'.uri = << session.websocket_url, "?websocket_feature=",
                              session.websocket_authorized_feature >>
          /\ dialed'.headers["Websocket-Id"] = session.websocket_id
          /\ session' = session

C8_SessionReplacedAndDialed == [][C8_Step]_vars

\* a second authorize() replaced the first session, and connect() dialed
\* with the second one
C8_Witness ==
    /\ nauth = 2 /\ session.some /\ session.websocket_id = "ws_2"
    /\ dialed.some /\ dialed.uri[1] = "wss://y" /\ dialed.uri[3] = "webhooks_v2"
    /\ dialed.headers["Websocket-Id"] = "ws_2"
    /\ handshakes = 1

(***************************************************************************)
(* C9  A failed handshake is one attempt: connect() returns the error,     *)
(* and no queue, writer, prober or reader exists that did not before; the  *)
(* session is as it was.                                                   *)
(***************************************************************************)
C9_Step ==
    handshakes' # handshakes =>
        /\ handshakes' = handshakes + 1
        /\ (result'.done /\ ~result'.ok) =>
              /\ result' = Returned("connect", FALSE, "handshake failed")
              /\ UNCHANGED << session, write_tx, nconn, chan, writer, wmsg,
                              prober, wire, enq, rpc, rcur, ingress, trace,
                    sock >>

C9_HandshakeFailure == [][C9_Step]_vars

\* a handshake failed and left a listener that never connected
C9_Witness ==
    /\ result = Returned("connect", FALSE, "handshake failed")
    /\ handshakes = 1 /\ nconn = 0 /\ write_tx = 0 /\ session.some

(***************************************************************************)
(* C7  What the writer puts on the socket is a prefix of what was          *)
(* enqueued, in the same order; nothing enqueued is lost while the         *)
(* receiver is alive, and the writer holds at most one message.            *)
(***************************************************************************)
InFlight(c) == IF writer[c] = "send" THEN << wmsg[c] >> ELSE << >>

C7_WireIsPrefixOfEnqueued ==
    \A c \in Conns :
        /\ IsPrefix(wire[c] \o InFlight(c), enq[c])
        /\ ~chan[c].closed => wire[c] \o InFlight(c) \o chan[c].queue = enq[c]
        /\ writer[c] # "send" => wmsg[c] = NoMessage

\* pings and acknowledgments interleaved on the wire
C7_Witness ==
    /\ Len(wire[1]) >= 3
    /\ wire[1][1].kind = "Ping" /\ wire[1][2].kind = "Text" /\ wire[1][3].kind = "Ping"

(***************************************************************************)
(* C10  connect() is running exactly while the read loop runs and returns  *)
(* Ok when it ends; the read loop ends on a Close frame, a read error or   *)
(* the end of the stream, and on nothing else.                             *)
(***************************************************************************)
EndingKinds == {"Close", "Err", "None"}

C10_State ==
    /\ (rpc = "idle") = (ingress # << >> /\ ingress[Len(ingress)].kind \in EndingKinds)
    /\ \A n \in 1..(Len(ingress) - 1) : ingress[n].kind \notin EndingKinds
    /\ result = IF rpc = "idle" THEN Returned("connect", TRUE, "")
                ELSE Running("connect")

C10_Step ==
    (rpc # "idle" /\ rpc' = "idle") =>
        /\ rpc = "recv"
        /\ Len(ingress') = Len(ingress) + 1
        /\ ingress'[Len(ingress')].kind \in EndingKinds

CallName(n) == IF ItemCase(n) = "webhook_event" THEN "on_webhook_event"
               ELSE IF ItemCase(n) = "v2_event" THEN "on_v2_event"
               ELSE "on_unknown_message"

C11_State ==
    writer[1] = "done" =>
        /\ (rpc = "idle") =
              (ingress # << >> /\ ingress[Len(ingress)].kind \in EndingKinds)
        /\ \A n \in DOMAIN ingress :
              (Handled(n) /\ ItemCase(n) \in {"webhook_event", "v2_event", "unknown"}) =>
                  /\ Cardinality(CallsFor(n)) = 1
                  /\ \A k \in CallsFor(n) : trace[k].ev = CallName(n)

C11_Step ==
    (writer[1] = "send" /\ writer'[1] = "done") =>
        UNCHANGED << rpc, rcur, ingress, trace, result, sock >>

C11_WriteFailureEndsOnlyWriter == []C11_State /\ [][C11_Step]_vars

\* the writer failed before the first frame; a delivery and an unknown
\* message were then handled and the read loop is still running
C11_Witness ==
    /\ writer[1] = "done" /\ rpc = "recv" /\ Len(ingress) = 2
    /\ IsDelivery(1) /\ AttemptsFor(1) # {} /\ EnqueuedFor(1) = {}
    /\ CallsFor(1) # {}
    /\ ItemCase(2) = "unknown" /\ CallsFor(2) # {}

(***************************************************************************)
(* C12  Once the socket of a session is closed, under fair scheduling the  *)
(* read loop ends (connect() returns), the write loop ends and the ping    *)
(* loop ends.                                                              *)
(***************************************************************************)
Terminated(c) ==
    /\ writer[c] = "done"
    /\ prober[c] = "done"
    /\ c = nconn => rpc = "idle" /\ result = Returned("connect", TRUE, "")

C12_ClosedSocketTerminates ==
    \A c \in Conns : (sock[c] = "closed") ~> Terminated(c)

\* a session that wrote pings and acknowledgments, lost its socket and ended
C12_Witness ==
    /\ sock[1] = "closed" /\ Terminated(1)
    /\ Len(wire[1]) >= 2 /\ trace # << >>

(***************************************************************************)
(* C13  A tick of the ping loop enqueues exactly one ping, and only while  *)
(* the loop runs and the channel is open.  The loop ends only on a send    *)
(* refused by a closed channel (the write loop is gone); once ended it     *)
(* stays ended and enqueues nothing more, and its ending changes nothing   *)
(* of the read loop.                                                       *)
(***************************************************************************)
PingCount(q) == Cardinality({ i \in DOMAIN q : q[i] = PingMessage })

C13_Step ==
    \A c \in Conns :
        /\ PingCount(enq'[c]) \in { PingCount(enq[c]), PingCount(enq[c]) + 1 }
        /\ PingCount(enq'[c]) > PingCount(enq[c]) =>
              /\ prober[c] = "running" /\ prober'[c] = "running"
              /\ ~ chan[c].closed
              /\ enq'[c] = Append(enq[c], PingMessage)
              /\ chan'[c].queue = Append(chan[c].queue, PingMessage)
        /\ prober[c] = "done" =>
              /\ prober'[c] = "done"
              /\ PingCount(enq'[c]) = PingCount(enq[c])
        /\ (prober[c] = "running" /\ prober'[c] = "done") =>
              /\ chan[c].closed /\ writer[c] = "done"
              /\ UNCHANGED << rpc, rcur, result, ingress, trace, enq, chan,
                              writer, sock >>

C13_ProberEndsForGood == [][C13_Step]_vars

\* the ping loop has pinged and ended while the read loop still runs
C13_Witness ==
    /\ prober[1] = "done"
    /\ PingCount(enq[1]) >= 1
    /\ rpc = "recv" /\ nconn = 1

(***************************************************************************)
(* C14  An acknowledgment the closed egress channel refuses is dropped     *)
(* silently: connect() keeps running, the callback of that delivery is     *)
(* still made, once and after the attempt, and the frames that follow are  *)
(* handled as usual.                                                       *)
(***************************************************************************)
RefusedAcks == { n \in DOMAIN ingress : \E a \in AttemptsFor(n) : ~ trace[a].sent }

C14_State ==
    \A n \in RefusedAcks :
        /\ n = Len(ingress) => rpc \in {"notify", "recv"} /\ result = Running("connect")
        /\ (n = Len(ingress) /\ rpc = "notify") => CallsFor(n) = {}
        /\ Handled(n) =>
              /\ Cardinality(CallsFor(n)) = 1
              /\ \A k \in CallsFor(n) :
                    /\ trace[k].ev = CallName(n)
                    /\ \A a \in AttemptsFor(n) : a < k
        /\ \A m \in DOMAIN ingress :
              (m > n /\ Handled(m) /\ ItemCase(m) \in {"webhook_event", "v2_event", "unknown"}) =>
                  /\ Cardinality(CallsFor(m)) = 1
                  /\ \A k \in CallsFor(m) : trace[k].ev = CallName(m)

C14_Step ==
    (rpc = "ack" /\ rpc' # "ack" /\ chan[nconn].closed) =>
        /\ rpc' = "notify"
        /\ trace' = Append(trace, AckEvent(Len(ingress), rcur.ack, FALSE))
        /\ UNCHANGED << result, chan, enq, ingress, rcur, writer, prober >>

C14_RefusedAckIsSwallowed == []C14_State /\ [][C14_Step]_vars

\* two deliveries after the write loop ended: both acknowledgments refused,
\* both callbacks made, the read loop waiting for the next frame
C14_Witness ==
    /\ Len(ingress) = 2 /\ RefusedAcks = {1, 2}
    /\ ItemCase(1) = "v2_event" /\ ItemCase(2) = "webhook_event"
    /\ CallsFor(1) # {} /\ CallsFor(2) # {}
    /\ rpc = "recv" /\ result = Running("connect")

(***************************************************************************)
(* C15  (as stated)  The enqueue of an acknowledgment always completes or  *)
(* fails: the read loop never stays forever between receiving a delivery   *)
(* and calling its handler, also when the write loop is stalled and the    *)
(* egress channel is full.                                                 *)
(***************************************************************************)
C15_AckEnqueueCompletes == (rpc = "ack") ~> (rpc # "ack")

(***************************************************************************)
(* C16  (as stated)  At every moment at most one write loop and at most    *)
(* one ping loop started by the listener are alive, and the read loop runs *)
(* only inside the one connect() in progress: a connect() made after an    *)
(* earlier connect() returned finds no task of the earlier session alive.  *)
(***************************************************************************)
LiveWriters == { c \in Conns : writer[c] \in {"recv", "send"} }
LiveProbers == { c \in Conns : prober[c] = "running" }

C16_OneTaskOfEachKind ==
    /\ Cardinality(LiveWriters) <= 1
    /\ Cardinality(LiveProbers) <= 1
    /\ rpc # "idle" => LiveWriters \subseteq {nconn} /\ LiveProbers \subseteq {nconn}

(***************************************************************************)
(* C17  (as stated)  Once a connect() has run a session and returned, the  *)
(* listener is Terminated: the next call that dials is not made from that  *)
(* state, an authorize() comes first.  A connect() that follows directly   *)
(* is refused and does not dial with the stored session descriptor.        *)
(***************************************************************************)
C17_Step ==
    handshakes' > handshakes => result # Returned("connect", TRUE, "")

C17_NoConnectFromTerminated == [][C17_Step]_vars

(***************************************************************************)
(* C18  An authorize() that fails changes nothing of the listener but its  *)
(* result: a session stored by an earlier call is still stored, and the    *)
(* connect() that follows is accepted and dials with that session.         *)
(***************************************************************************)
C18_Step ==
    /\ (nauth' > nauth /\ ~ result'.ok) =>
          /\ session' = session
          /\ UNCHANGED << write_tx, handshakes, dialed, nconn, rpc >>
    /\ (result.op = "authorize" /\ ~ result.ok /\ session.some /\ result'.op = "connect") =>
          /\ result' # Returned("connect", FALSE, StateError)
          /\ Url_parse(ws_url(session)).ok =>
                /\ handshakes' = handshakes + 1
                /\ dialed' = HandshakeRequest(session)
                /\ session' = session

C18_FailedAuthorizeKeepsSession == [][C18_Step]_vars

\* an authorize() has succeeded, the next one has failed: the session is still
\* stored and connect() can go on to dial
C18_Witness ==
    /\ nauth = 2 /\ result.op = "authorize" /\ ~ result.ok
    /\ session.some /\ handshakes = 0
    /\ ENABLED ConnectEstablished

(***************************************************************************)
(* C19  Acknowledgment attempts and handler calls are made by the read     *)
(* loop only, one at a time, in the order of arrival of their frames; for  *)
(* one frame the attempt precedes the call; everything for frame n is      *)
(* done before frame n+1 is read; and the acknowledgments stand in the     *)
(* egress queue in the order of arrival of their deliveries.               *)
(***************************************************************************)
C19_State ==
    /\ \A i, j \in DOMAIN trace :
          i < j => \/ trace[i].n < trace[j].n
                   \/ /\ trace[i].n = trace[j].n
                      /\ trace[i].ev = "ack" /\ trace[j].ev # "ack"
    /\ \A i \in DOMAIN trace : trace[i].n \in DOMAIN ingress
    /\ SelectSeq(enq[nconn], IsTextMessage) = SentAcks
    /\ \A i, j \in DOMAIN SentAcks :
          i < j => \E a, b \in DOMAIN trace :
                      /\ a < b /\ trace[a].n < trace[b].n
                      /\ IsSentAck(trace[a]) /\ trace[a].msg = SentAcks[i]
                      /\ IsSentAck(trace[b]) /\ trace[b].msg = SentAcks[j]

C19_Step ==
    /\ trace' # trace =>
          /\ rpc \in {"recv", "ack", "notify"}
          /\ \E e \in { trace'[Len(trace')] } :
                /\ trace' = Append(trace, e)
                /\ e.n = Len(ingress')
                /\ e.ev = "ack" => rpc = "ack" /\ rpc' = "notify"
                /\ e.ev \in {"on_webhook_event", "on_v2_event"} =>
                      rpc = "notify" /\ rpc' = "recv"
                /\ e.ev = "on_unknown_message" => rpc = "recv" /\ rpc' = "recv"
    /\ ingress' # ingress =>
          /\ rpc = "recv"
          /\ \A n \in DOMAIN ingress :
                ItemCase(n) \in {"webhook_event", "v2_event", "unknown"} => CallsFor(n) # {}

C19_CallsAndAcksInArrivalOrder == []C19_State /\ [][C19_Step]_vars

\* two deliveries, each acknowledged on the queue and then handed to its
\* callback, the first in full before the second
C19_Witness ==
    /\ Len(ingress) = 2 /\ IsDelivery(1) /\ IsDelivery(2)
    /\ ingress[1] # ingress[2]
    /\ Len(trace) = 4 /\ Len(SentAcks) = 2
    /\ Len(SelectSeq(enq[1], IsTextMessage)) = 2

(***************************************************************************)
(* C20  A binary, ping or pong frame changes nothing: the read loop makes  *)
(* no acknowledgment attempt and no handler call for it, enqueues          *)
(* nothing, keeps connect() running and goes on to the next frame.         *)
(***************************************************************************)
OtherKinds == {"Binary", "Ping", "Pong"}

C20_State ==
    \A n \in DOMAIN ingress :
        ingress[n].kind \in OtherKinds => AttemptsFor(n) = {} /\ CallsFor(n) = {}

C20_Step ==
    (Len(ingress') = Len(ingress) + 1 /\ ingress'[Len(ingress')].kind \in OtherKinds) =>
        /\ rpc = "recv" /\ rpc' = "recv"
        /\ UNCHANGED << trace, enq, chan, rcur, result, writer, wmsg, prober,
                        wire, session, write_tx, sock >>

C20_OtherFramesChangeNothing == []C20_State /\ [][C20_Step]_vars

\* a binary frame carrying the text of a delivery was read and passed over;
\* the delivery read after it was acknowledged and handed to its callback
C20_Witness ==
    /\ Len(ingress) = 2
    /\ ingress[1] = Item("Binary", TextWebhook1)
    /\ IsDelivery(2) /\ EnqueuedFor(2) # {} /\ CallsFor(2) # {}
    /\ Len(trace) = 2 /\ rpc = "recv"

====
